---- MODULE Spec2Model ----
(***************************************************************************)
(* SafeStreets backend (src/app.py): the HTTP handlers over the four       *)
(* PostgreSQL tables, the incident aggregator get_nearby_crime_data, the   *)
(* route scorer get_routes_with_safety, and the process-wide connection    *)
(* pool with its per-request teardown.                                     *)
(*                                                                         *)
(* Five specifications share the module:                                   *)
(*   Spec         the account handlers, requests served one at a time,     *)
(*                each handler one action over the stored tables;          *)
(*   SpecHistory  saved routes and their history;                          *)
(*   SpecTables   every handler that writes a table, and create_tables;    *)
(*   SpecScore    get_nearby_crime_data and get_routes_with_safety applied *)
(*                to inputs drawn from bounded sets;                       *)
(*   SpecPool     request threads interleaved statement by statement over  *)
(*                the global db_pool (Flask's threaded server).            *)
(*                                                                         *)
(* Coordinates are integers in units of 1e-7 degree, scores and severities *)
(* integers in hundredths.                                                 *)
(***************************************************************************)
EXTENDS Integers, Sequences, FiniteSets, TLC

\* ------------------------------------------------------------- bounds
MaxUsers == 2      \* values users.user_id (SERIAL) may hand out
MaxSaved == 2      \* values route_history.route_id (SERIAL) may hand out
MaxClock == 2      \* values CURRENT_TIMESTAMP takes
MaxRows == 1       \* values each SERIAL may hand out where all four tables are followed
MaxAlternatives == 2  \* routes the directions provider returns for one request
MaxRequests == 3   \* requests the threaded server takes up

\* ------------------------------------------------------------ domains
None == "None"

\* A value that may be NULL / None where the value itself is no string
Null == << >>
Some(x) == <<x>>

Emails == {"a@x.in", "b@x.in"}
Passwords == {"pw1", "pw2"}
Salts == {"s1"}
\* What goes wrong while a request is served: nothing, the pool cannot be created
\* (init_db_pool leaves db_pool None), or a statement inside the handler's try raises
\* (in the handlers that write: after the INSERTs, before the commit)
Faults == {"none", "pool", "raise"}

\* Coordinates in 1e-7 degree: 12.9715987 N 77.5945627 E and 12.9352 N 77.6245 E
Deg == 10 * 1000 * 1000
Lat7 == 12 * Deg + 9715987
Lng7 == 77 * Deg + 5945627
Lat6 == 12 * Deg + 9352000
Lng6 == 77 * Deg + 6245000

VARIABLES
    users,          \* table users
    users_seq,      \* next value of users.user_id (SERIAL)
    route_history,  \* table route_history
    route_seq,      \* next value of route_history.route_id
    feedback,       \* table feedback
    feedback_seq,   \* next value of feedback.feedback_id
    crime_logs,     \* table crime_logs
    crime_seq,      \* next value of crime_logs.id
    crime_columns,  \* which columns crime_logs has: "app" (create_tables) or "loader"
    clock,          \* CURRENT_TIMESTAMP
    req,            \* the request being answered
    resp,           \* the answer to it
    regLog,         \* history: the registrations answered 201 since the tables were created
    db_pool,        \* the global db_pool: 0 for None, else the pool object
    pools,          \* the pool objects made so far: closed flag, connections checked out
    th,             \* each server thread: where it is in its request and its locals
    started         \* requests taken up so far

acctVars == <<users, users_seq>>
histVars == <<route_history, route_seq>>
fbVars == <<feedback, feedback_seq>>
crimeVars == <<crime_logs, crime_seq, crime_columns>>
poolVars == <<db_pool, pools, th, started>>
vars == <<acctVars, histVars, fbVars, crimeVars, clock, req, resp, regLog, poolVars>>

\* ------------------------------------------------- werkzeug.security
Digest(salt, password) == <<salt, password>>

generate_password_hash(password, salt) ==
    [method |-> "scrypt", salt |-> salt, digest |-> Digest(salt, password)]

\* A comparison that leaves the salt out
check_password_unsalted(pwhash, password) ==
    pwhash.digest = Digest("", password)

check_password_hash(pwhash, password) ==
    pwhash.digest = Digest(pwhash.salt, password)

\* ----------------------------------------------------------- answers
Answer(code, body) == [code |-> code, body |-> body]

Error(code, message) == Answer(code, [status |-> "error", message |-> message])

PoolNotInitialized == Error(500, "Database pool not initialized.")

Truthy(v) == v # None /\ v # ""

\* str(e) of a caught exception: opaque text
ExcText == "<exception text>"

\* ------------------------------------------------------ request data
\* A phone number is what register_user inspects of it: len(phone) and phone.isdigit()
GoodPhone == [len |-> 10, isdigit |-> TRUE]
ShortPhone == [len |-> 9, isdigit |-> TRUE]
AlphaPhone == [len |-> 10, isdigit |-> FALSE]
NoPhone == [len |-> 0, isdigit |-> FALSE]

BaseRegistration(e, p) ==
    [name |-> "Asha", email |-> e, password |-> p, phone |-> GoodPhone, gender |-> "F"]

\* The valid registrations, and each of them with one field missing or malformed
RegisterRequests ==
    LET valid == {BaseRegistration(e, p) : e \in Emails, p \in Passwords}
        base == BaseRegistration("a@x.in", "pw1")
    IN  valid \cup
        { [base EXCEPT !.name = None], [base EXCEPT !.email = None],
          [base EXCEPT !.password = ""], [base EXCEPT !.gender = None],
          [base EXCEPT !.phone = NoPhone], [base EXCEPT !.phone = ShortPhone],
          [base EXCEPT !.phone = AlphaPhone] }

LoginRequests ==
    {[email |-> e, password |-> p] : e \in Emails \cup {"c@x.in"}, p \in Passwords}
    \cup {[email |-> None, password |-> "pw1"], [email |-> "a@x.in", password |-> None]}

\* ------------------------------------------------------ transactions
\* An except clause that commits what the transaction had written so far
RollbackKeepsPending(committed, pending) == committed \cup pending

\* except ...: if conn: conn.rollback() -- the rows the transaction wrote are gone
Rollback(committed, pending) == committed

\* A table whose user_id column references nothing
ForeignKeyUnchecked(user_id) == TRUE

\* FOREIGN KEY (user_id) REFERENCES users(user_id), of feedback and route_history
ForeignKeyHolds(user_id) == \E u \in users : u.user_id = user_id

\* ------------------------------------------------------ table users
\* created_at and last_login are written by the column defaults only and read by
\* none of the handlers below
UserRow(id, d, hash) ==
    [user_id |-> id, name |-> d.name, email |-> d.email, password_hash |-> hash,
     phone |-> d.phone, gender |-> d.gender]

UsersByEmail(email) == {u \in users : u.email = email}

\* -------------------------------------------------- POST /api/register
\* The UNIQUE constraint CREATE TABLE users gives the column email
UniqueEmailConstraint == "users_email_key"

\* A handler that looks for another constraint name in the IntegrityError text
IntegrityAnswerOtherName(constraint) ==
    IF constraint = "users_email_unique"
    THEN Error(409, "Email already registered.")
    ELSE Error(500, "Database integrity error.")

\* except psycopg2.IntegrityError: the answer by the constraint the error text names
IntegrityAnswer(constraint) ==
    IF constraint = "users_email_key"
    THEN Error(409, "Email already registered.")
    ELSE Error(500, "Database integrity error.")

\* The answer and the rows of users after the request; nextval('users_user_id_seq')
\* is taken by the INSERT before the UNIQUE check, so a refused INSERT uses up an id
RegisterOutcome(d, salt, fault) ==
    LET same == [ans |-> Error(500, "?"), rows |-> users, seq |-> users_seq]
    IN
    IF ~(Truthy(d.name) /\ Truthy(d.email) /\ Truthy(d.password)
            /\ d.phone.len > 0 /\ Truthy(d.gender))
    THEN [same EXCEPT !.ans = Error(400, "All fields are required.")]
    ELSE IF d.phone.len # 10 \/ ~d.phone.isdigit
    THEN [same EXCEPT !.ans = Error(400, "Phone number must be exactly 10 digits.")]
    ELSE IF fault = "pool"
    THEN [same EXCEPT !.ans = PoolNotInitialized]
    ELSE IF UsersByEmail(d.email) # {}
    THEN [same EXCEPT !.ans = IntegrityAnswer(UniqueEmailConstraint),
                      !.rows = Rollback(users, {}),
                      !.seq = users_seq + 1]
    ELSE IF fault = "raise"
    THEN [ans |-> Error(500, "An error occurred during registration: " \o ExcText),
          rows |-> Rollback(users, {UserRow(users_seq, d,
                                            generate_password_hash(d.password, salt))}),
          seq |-> users_seq + 1]
    ELSE [ans |-> Answer(201, [status |-> "success",
                               message |-> "User registered successfully!",
                               user_id |-> users_seq]),
          rows |-> users \cup {UserRow(users_seq, d, generate_password_hash(d.password, salt))},
          seq |-> users_seq + 1]

RegisterUser(requests, max) ==
    \E d \in requests, salt \in Salts, fault \in Faults :
        LET out == RegisterOutcome(d, salt, fault) IN
        /\ users_seq <= max
        /\ users' = out.rows
        /\ users_seq' = out.seq
        /\ req' = [op |-> "register", data |-> d, fault |-> fault]
        /\ resp' = out.ans
        /\ regLog' = IF out.ans.code = 201
                        THEN regLog \cup {[email |-> d.email, password |-> d.password,
                                           user_id |-> out.ans.body.user_id]}
                        ELSE regLog
        /\ UNCHANGED <<histVars, fbVars, crimeVars, clock, poolVars>>

register_user == RegisterUser(RegisterRequests, MaxUsers)

\* ----------------------------------------------------- POST /api/login
\* A handler that tells a missing user from a wrong password
LoginFailureTelling(found) ==
    IF found = {} THEN Error(404, "User not found.")
    ELSE Error(401, "Invalid email or password.")

\* The else branch of: if user_record and check_password_hash(...)
LoginFailure(found) == Error(401, "Invalid email or password.")

LoginOutcome(rows, d, fault) ==
    IF fault = "pool" THEN PoolNotInitialized
    ELSE IF ~(Truthy(d.email) /\ Truthy(d.password))
    THEN Error(400, "Email and password are required.")
    ELSE IF fault = "raise"
    THEN Error(500, "An error occurred during login.")
    ELSE LET found == {u \in rows : u.email = d.email} IN
         IF \E u \in found : check_password_hash(u.password_hash, d.password)
         THEN LET u == CHOOSE u \in found : TRUE IN
              Answer(200, [status |-> "success", message |-> "Login successful!",
                           user_id |-> u.user_id, username |-> u.name, email |-> u.email])
         ELSE LoginFailure(found)

LoginUser(requests) ==
    \E d \in requests, fault \in Faults :
        /\ req' = [op |-> "login", data |-> d, fault |-> fault]
        /\ resp' = LoginOutcome(users, d, fault)
        /\ UNCHANGED <<acctVars, histVars, fbVars, crimeVars, clock, regLog, poolVars>>

login_user == LoginUser(LoginRequests)

\* ------------------------------------------------ table route_history
\* A value stored in a DECIMAL(9,6) column: rounded to 6 decimals, half away from zero
Decimal6(x) == IF x >= 0 THEN ((x + 5) \div 10) * 10 ELSE 0 - (((0 - x) + 5) \div 10) * 10

\* json.dumps of the submitted structure, the text a JSON column keeps, and psycopg2's
\* parse of that text on SELECT
json_dumps(v) == [json_text |-> v]
json_loads(t) == t.json_text

SaveFields == {"user_id", "source_lat", "source_lng", "destination_lat",
               "destination_lng", "selected_route"}

BaseSave(u, lat, lng, p) ==
    [user_id |-> u, source_lat |-> lat, source_lng |-> lng,
     destination_lat |-> Lat6, destination_lng |-> Lng6, selected_route |-> p]

\* User 1 submits 7-decimal coordinates, the others 6-decimal ones; one request
\* lacks selected_route
SaveRequests(maxUser) ==
    {BaseSave(1, Lat7, Lng7, [name |-> "Route 1", km |-> 4])}
    \cup {BaseSave(u, Lat6, Lng6, [name |-> "Safest Path", km |-> 6]) : u \in 2..(maxUser + 1)}
    \cup {[user_id |-> 1, source_lat |-> Lat6, source_lng |-> Lng6,
           destination_lat |-> Lat6, destination_lng |-> Lng6]}

RouteRow(id, d, now) ==
    [route_id |-> id, user_id |-> d.user_id,
     source_lat |-> Decimal6(d.source_lat), source_lng |-> Decimal6(d.source_lng),
     destination_lat |-> Decimal6(d.destination_lat),
     destination_lng |-> Decimal6(d.destination_lng),
     request_time |-> now, selected_route |-> json_dumps(d.selected_route)]

\* ---------------------------------------- POST /api/save_selected_route
\* nextval is taken before the FOREIGN KEY check, so a refused INSERT uses up an id
SaveRouteOutcome(d, fault) ==
    LET same == [ans |-> Error(500, ExcText), rows |-> route_history, seq |-> route_seq]
    IN
    IF fault = "pool" THEN [same EXCEPT !.ans = PoolNotInitialized]
    ELSE IF ~(SaveFields \subseteq DOMAIN d)
    THEN [same EXCEPT !.ans = Error(400, "Missing required fields")]
    ELSE IF ~ForeignKeyHolds(d.user_id)
    THEN [same EXCEPT !.rows = Rollback(route_history, {}), !.seq = route_seq + 1]
    ELSE IF fault = "raise"
    THEN [same EXCEPT !.rows = Rollback(route_history, {RouteRow(route_seq, d, clock)}),
                      !.seq = route_seq + 1]
    ELSE [ans |-> Answer(201, [status |-> "success", message |-> "Route saved successfully",
                               route_id |-> route_seq]),
          rows |-> route_history \cup {RouteRow(route_seq, d, clock)},
          seq |-> route_seq + 1]

SaveSelectedRoute(requests, max) ==
    \E d \in requests, fault \in Faults :
        LET out == SaveRouteOutcome(d, fault) IN
        /\ route_seq <= max
        /\ route_history' = out.rows
        /\ route_seq' = out.seq
        /\ req' = [op |-> "save_selected_route", data |-> d, fault |-> fault]
        /\ resp' = out.ans
        /\ UNCHANGED <<acctVars, fbVars, crimeVars, clock, regLog, poolVars>>

save_selected_route == SaveSelectedRoute(SaveRequests(MaxUsers), MaxSaved)

\* ------------------------------------------------ get_address_from_coords
\* reverse_geocode names a place, the same for close-by coordinates
Geocoders == {"absent", "raises", "empty", "ok"}

CoordText(lat, lng) == [text |-> "Lat: {lat}, Lng: {lng}", lat |-> lat, lng |-> lng]

formatted_address(lat, lng) ==
    [text |-> "formatted_address", lat |-> lat \div 100000, lng |-> lng \div 100000]

\* An exception that leaves the conversion of one row
RowError == [text |-> "Exception"]

\* A conversion that lets the geocoding call's exception through
GeocodeUncaught(lat, lng, gmaps) ==
    IF gmaps = "absent" THEN CoordText(lat, lng)
    ELSE IF gmaps = "raises" THEN RowError
    ELSE IF gmaps = "empty" THEN CoordText(lat, lng)
    ELSE formatted_address(lat, lng)

get_address_from_coords(lat, lng, gmaps) ==
    IF gmaps = "absent" THEN CoordText(lat, lng)
    ELSE IF gmaps = "raises" THEN CoordText(lat, lng)
    ELSE IF gmaps = "empty" THEN CoordText(lat, lng)
    ELSE formatted_address(lat, lng)

\* ------------------------------------- GET /api/get_route_history/<id>
isoformat(t) == [iso |-> t]

HistoryEntry(r, gmaps) ==
    [request_time |-> isoformat(r.request_time),
     source_address |-> get_address_from_coords(r.source_lat, r.source_lng, gmaps),
     destination_address |->
         get_address_from_coords(r.destination_lat, r.destination_lng, gmaps),
     selected_route |-> json_loads(r.selected_route)]

\* A query that sorts the other way
OrderByTimeAsc(rows) ==
    {s \in [1..Cardinality(rows) -> rows] :
        /\ \A i, j \in DOMAIN s : i # j => s[i] # s[j]
        /\ \A i, j \in DOMAIN s : i < j => s[i].request_time <= s[j].request_time}

\* The orders in which SELECT ... ORDER BY request_time DESC may return the rows:
\* rows of equal request_time come in any order
OrderByTimeDesc(rows) ==
    {s \in [1..Cardinality(rows) -> rows] :
        /\ \A i, j \in DOMAIN s : i # j => s[i] # s[j]
        /\ \A i, j \in DOMAIN s : i < j => s[i].request_time >= s[j].request_time}

RouteHistoryOutcome(user_id, fetched, gmaps, fault) ==
    IF fault = "pool" THEN PoolNotInitialized
    ELSE IF fault = "raise" THEN Error(500, ExcText)
    ELSE \* a row whose conversion raises is left out of the history
         LET entries == [i \in DOMAIN fetched |-> HistoryEntry(fetched[i], gmaps)]
         IN  Answer(200, [status |-> "success",
                          history |-> SelectSeq(entries,
                                         LAMBDA e : /\ e.source_address # RowError
                                                    /\ e.destination_address # RowError)])

get_route_history ==
    \E user_id \in 1..(MaxUsers + 1), gmaps \in Geocoders, fault \in Faults :
      /\ fault # "none" => gmaps = "absent"
      /\ \E fetched \in OrderByTimeDesc({r \in route_history : r.user_id = user_id}) :
        /\ req' = [op |-> "get_route_history", user_id |-> user_id, gmaps |-> gmaps,
                   fault |-> fault]
        /\ resp' = RouteHistoryOutcome(user_id, fetched, gmaps, fault)
        /\ UNCHANGED <<acctVars, histVars, fbVars, crimeVars, clock, regLog, poolVars>>

\* CURRENT_TIMESTAMP moves on between requests
Tick ==
    /\ clock < MaxClock
    /\ clock' = clock + 1
    /\ UNCHANGED <<acctVars, histVars, fbVars, crimeVars, req, resp, regLog, poolVars>>

\* ---------------------------------------------------- table feedback
\* data.get(k): the value, or None when the key is absent
Get(d, k) == IF k \in DOMAIN d THEN Some(d[k]) ELSE Null

BaseFeedback(u, r) == [userId |-> u, segment_id |-> 7, rating |-> r, comment |-> "ok"]

FeedbackRequests(maxUser) ==
    {BaseFeedback(1, 5), BaseFeedback(maxUser + 1, 5), BaseFeedback(1, 6),
     [userId |-> 1, segment_id |-> 7, comment |-> "ok"]}

\* submitted_at is written by the column default only
FeedbackRow(id, d) ==
    [feedback_id |-> id, user_id |-> d.userId, segment_id |-> d.segment_id,
     rating |-> Get(d, "rating"), comment |-> Get(d, "comment")]

\* CHECK (rating >= 1 AND rating <= 5): a NULL rating satisfies a CHECK constraint
RatingCheck(rating) == rating = Null \/ (rating[1] >= 1 /\ rating[1] <= 5)

\* ------------------------------------------------ POST /api/save_feedback
\* NOT NULL and CHECK are tested when the row is formed, the FOREIGN KEY after it;
\* each refused INSERT has taken its feedback_id from the sequence
FeedbackOutcome(d, fault) ==
    LET same == [ans |-> Error(500, ExcText), rows |-> feedback, seq |-> feedback_seq]
    IN
    IF fault = "pool" THEN [same EXCEPT !.ans = PoolNotInitialized]
    ELSE IF Get(d, "userId") = Null \/ Get(d, "segment_id") = Null
    THEN [same EXCEPT !.rows = Rollback(feedback, {}), !.seq = feedback_seq + 1]
    ELSE IF ~RatingCheck(Get(d, "rating"))
    THEN [same EXCEPT !.rows = Rollback(feedback, {}), !.seq = feedback_seq + 1]
    ELSE IF ~ForeignKeyHolds(d.userId)
    THEN [same EXCEPT !.ans = Error(400, "User or route ID does not exist."),
                      !.rows = Rollback(feedback, {}),
                      !.seq = feedback_seq + 1]
    ELSE IF fault = "raise"
    THEN [same EXCEPT !.rows = Rollback(feedback, {FeedbackRow(feedback_seq, d)}),
                      !.seq = feedback_seq + 1]
    ELSE [ans |-> Answer(201, [status |-> "success", feedback_id |-> feedback_seq]),
          rows |-> feedback \cup {FeedbackRow(feedback_seq, d)},
          seq |-> feedback_seq + 1]

SaveFeedback(requests, max) ==
    \E d \in requests, fault \in Faults :
        LET out == FeedbackOutcome(d, fault) IN
        /\ feedback_seq <= max
        /\ feedback' = out.rows
        /\ feedback_seq' = out.seq
        /\ req' = [op |-> "save_feedback", data |-> d, fault |-> fault]
        /\ resp' = out.ans
        /\ UNCHANGED <<acctVars, histVars, crimeVars, clock, regLog, poolVars>>


\* -------------------------------------------------- table crime_logs
\* Severity in hundredths (DECIMAL(5,2)); reported_at is written by the column default
NearCrime ==
    [latitude |-> Lat7 + 13, longitude |-> Lng7 - 27, severity_score |-> 350,
     crowd_density |-> 40, is_safe_route |-> TRUE, crime_type |-> "Theft"]
FarCrime ==
    [latitude |-> Lat6, longitude |-> Lng6, severity_score |-> 125,
     crowd_density |-> 10, is_safe_route |-> FALSE, crime_type |-> "Assault"]
BareCrime == [latitude |-> Lat7, longitude |-> Lng7]
NoPlaceCrime == [severity_score |-> 200, crime_type |-> "Theft"]

CrimeBatches ==
    { << >>, <<NearCrime>>, <<FarCrime>>, <<BareCrime>>, <<NearCrime, FarCrime>>,
      <<NearCrime, NoPlaceCrime>> }

SmallCrimeBatches == { << >>, <<NearCrime>>, <<NearCrime, NoPlaceCrime>> }

CrimeRow(id, c) ==
    [id |-> id, latitude |-> Decimal6(c.latitude), longitude |-> Decimal6(c.longitude),
     severity_score |-> Get(c, "severity_score"), crowd_density |-> Get(c, "crowd_density"),
     is_safe_route |-> Get(c, "is_safe_route"), crime_type |-> Get(c, "crime_type")]

\* latitude, longitude are NOT NULL
CrimeInsertable(c) == "latitude" \in DOMAIN c /\ "longitude" \in DOMAIN c

\* ---------------------------------------------- POST /api/load_crime_data
\* One transaction for the batch: the first refused INSERT rolls all of it back;
\* the ids taken from the sequence are not given back
LoadCrimeOutcome(batch, fault) ==
    LET same == [ans |-> Error(500, "An error occurred while loading data: " \o ExcText),
                 rows |-> crime_logs, seq |-> crime_seq]
        bad == {i \in DOMAIN batch : ~CrimeInsertable(batch[i])}
        firstBad == CHOOSE i \in bad : \A j \in bad : i <= j
        \* the rows the INSERTs before position n have written
        written(n) == {CrimeRow(crime_seq + i - 1, batch[i]) : i \in 1..(n - 1)}
    IN
    IF fault = "pool" THEN [same EXCEPT !.ans = PoolNotInitialized]
    ELSE IF batch = << >>
    THEN [same EXCEPT !.ans =
              Error(400, "Invalid input. Expected a JSON list of crime objects.")]
    ELSE IF bad # {}
    THEN [same EXCEPT !.rows = Rollback(crime_logs, written(firstBad)),
                      !.seq = crime_seq + firstBad]
    ELSE IF fault = "raise"
    THEN [same EXCEPT !.rows = Rollback(crime_logs, written(Len(batch) + 1)),
                      !.seq = crime_seq + Len(batch)]
    ELSE [ans |-> Answer(201, [status |-> "success",
                               message |-> "{insert_count} crime records loaded successfully.",
                               insert_count |-> Len(batch)]),
          rows |-> crime_logs \cup
                    {CrimeRow(crime_seq + i - 1, batch[i]) : i \in DOMAIN batch},
          seq |-> crime_seq + Len(batch)]

LoadCrimeData(batches, max) ==
    \E batch \in batches, fault \in Faults :
        LET out == LoadCrimeOutcome(batch, fault) IN
        /\ crime_seq <= max
        /\ crime_logs' = out.rows
        /\ crime_seq' = out.seq
        /\ req' = [op |-> "load_crime_data", data |-> batch, fault |-> fault]
        /\ resp' = out.ans
        /\ UNCHANGED <<acctVars, histVars, fbVars, crime_columns, clock, regLog, poolVars>>

\* --------------------------------------------- GET /api/create_tables
\* DROP TABLE IF EXISTS ... CASCADE of the four tables (and the sequences they
\* own), then CREATE TABLE of each, in one transaction
create_tables ==
    \E fault \in Faults :
        /\ req' = [op |-> "create_tables", fault |-> fault]
        /\ IF fault = "pool"
           THEN /\ resp' = PoolNotInitialized
                /\ UNCHANGED <<acctVars, histVars, fbVars, crimeVars, regLog>>
           ELSE IF fault = "raise"
           THEN /\ resp' = Error(500, "Error creating tables: " \o ExcText)
                /\ UNCHANGED <<acctVars, histVars, fbVars, crimeVars, regLog>>
           ELSE /\ users' = {} /\ users_seq' = 1
                /\ route_history' = {} /\ route_seq' = 1
                /\ feedback' = {} /\ feedback_seq' = 1
                /\ crime_logs' = {} /\ crime_seq' = 1
                /\ crime_columns' = "app"
                /\ regLog' = {}
                /\ resp' = Answer(200, [status |-> "success",
                               message |-> "Database tables created or already exist."])
        /\ UNCHANGED <<clock, poolVars>>

\* ------------------------------------------------ get_nearby_crime_data
\* LIMIT 200 of the query, the default radius_km = 0.5 in metres, and the 111.0 km
\* a degree of latitude is taken to span
QueryLimit == 200
RadiusMetres == 500
KmPerDegree == 111

\* np.cos(np.radians(lat)) in 1e-4, for the latitudes requests are made at
CosE4(lat) ==
    CASE lat \div Deg = 12 -> 9745
      [] lat \div Deg = 60 -> 5000
      [] OTHER -> 10000

\* radius_km * (1 / 111.0) and radius_km * (1 / (111.0 * cos(lat))), in 1e-7 degree
LatDelta == (RadiusMetres * 10000) \div KmPerDegree
LonDelta(lat) == (LatDelta * 10000) \div CosE4(lat)

\* WHERE latitude BETWEEN min_lat AND max_lat AND longitude BETWEEN min_lon AND max_lon
InBox(row, lat, lon) ==
    /\ row.latitude >= lat - LatDelta /\ row.latitude <= lat + LatDelta
    /\ row.longitude >= lon - LonDelta(lat) /\ row.longitude <= lon + LonDelta(lat)

\* The row sets the query may return: all rows in the box, or some 200 of them
Fetched(rows, lat, lon) ==
    LET inBox == {r \in rows : InBox(r, lat, lon)} IN
    IF Cardinality(inBox) <= QueryLimit THEN {inBox}
    ELSE {x \in SUBSET inBox : Cardinality(x) = QueryLimit}

RECURSIVE SumSeverity(_)
SumSeverity(rows) ==
    IF rows = {} THEN 0
    ELSE LET r == CHOOSE r \in rows : TRUE IN
         r.severity_score[1] + SumSeverity(rows \ {r})

\* A fallback that reports no safe incident
ZeroSummary ==
    [incident_count |-> 0, avg_severity_score |-> 0, perc_safe_incidents |-> 0,
     crime_type_codes_nearby |-> {}]

\* The summary of the three fallback returns; percentages in 1e-2 percent
NeutralSummary ==
    [incident_count |-> 0, avg_severity_score |-> 0, perc_safe_incidents |-> 100 * 100,
     crime_type_codes_nearby |-> {}]

\* What a call meets: db_pool is None, getconn raises, getconn returns None,
\* cursor() or execute raises, or the query runs
LookupModes == {"no_pool", "getconn_raises", "getconn_none", "execute_raises", "ok"}

\* The SELECT names victim_gender, weapon_used, zone_type and source, columns that
\* the crime_logs of create_tables lacks: there execute raises UndefinedColumn.
\* In the loop, total_severity += None raises TypeError for a NULL severity_score.
\* avg in 1e-4 (severity is in hundredths), perc in 1e-2 percent
Summarize(records, columns, mode) ==
    IF mode # "ok" \/ columns = "app" THEN NeutralSummary
    ELSE IF \E r \in records : r.severity_score = Null THEN NeutralSummary
    ELSE LET n == Cardinality(records)
             safe == Cardinality({r \in records : r.is_safe_route = Some(TRUE)})
         IN [incident_count |-> n,
             avg_severity_score |-> IF n > 0 THEN (SumSeverity(records) * 100) \div n ELSE 0,
             perc_safe_incidents |-> IF n > 0 THEN (safe * 100 * 100) \div n ELSE 0,
             crime_type_codes_nearby |-> {r.crime_type : r \in records}]

\* The summaries a call may return
get_nearby_crime_data(lat, lon, mode) ==
    {Summarize(records, crime_columns, mode) : records \in Fetched(crime_logs, lat, lon)}

QueryPoints == {<<Lat7, Lng7>>, <<Lat6 + 40 * Deg, Lng6>>}

\* Neither this call nor get_routes_with_safety writes a table: one call on each
\* store stands for a call after any number of them
nearby_crime_data ==
    /\ req.op = "none"
    /\ \E p \in QueryPoints, mode \in LookupModes :
      \E summary \in get_nearby_crime_data(p[1], p[2], mode) :
        /\ req' = [op |-> "get_nearby_crime_data", lat |-> p[1], lon |-> p[2],
                   mode |-> mode]
        /\ resp' = summary
        /\ UNCHANGED <<acctVars, histVars, fbVars, crimeVars, clock, regLog, poolVars>>

\* ------------------------------------------ POST /api/get_routes_with_safety
\* Scores in thousandths on input, safetyScore in hundredths
Penalty == 1000
ScoreFloor == 0
ScoreCeiling == 10 * 1000

PyMax(a, b) == IF b > a THEN b ELSE a
PyMin(a, b) == IF b < a THEN b ELSE a

\* round(x, 2): to the nearest hundredth, a tie to the even one
Round2(x) ==
    LET q == x \div 10
        r == x % 10
    IN  IF r < 5 THEN q
        ELSE IF r > 5 THEN q + 1
        ELSE IF q % 2 = 0 THEN q ELSE q + 1

\* A score that is clamped before the penalty is taken off
SafetyScoreClampFirst(base, incident_count) ==
    LET clamped == PyMin(ScoreCeiling, PyMax(ScoreFloor, base)) IN
    Round2(IF incident_count > 0 THEN clamped - Penalty ELSE clamped)

\* A penalty taken off whatever the lookup found
PenaltyAlways(base, incident_count) == base - Penalty

\* final_safety_score = ml_predicted_score, and -= 1.0 if incident_count > 0
FinalSafetyScore(base, incident_count) ==
    IF incident_count > 0 THEN base - Penalty ELSE base

\* round(min(10.0, max(0.0, final_safety_score)), 2)
SafetyScore(base, incident_count) ==
    Round2(PyMin(ScoreCeiling, PyMax(ScoreFloor, FinalSafetyScore(base, incident_count))))

\* route_name = f"Route {idx + 1}", or "Safest Path"; a name is a record so that
\* the two kinds compare
SafestPath == [text |-> "Safest Path"]

RouteName(idx, preference) ==
    IF preference = "safest" /\ idx = 0 THEN SafestPath
    ELSE [text |-> "Route {idx + 1}", n |-> idx + 1]

\* A provider route: its decoded polyline, the score the model (or random.uniform)
\* gives its representative point, and whether it has a first leg
P1 == <<Lat7, Lng7>>
P2 == <<Lat6, Lng6>>
ProviderRoutes ==
    { [polyline |-> <<P1>>, base |-> 0 - 1500, legs |-> 1],
      [polyline |-> << >>, base |-> 400, legs |-> 1],
      [polyline |-> <<P1, P2>>, base |-> 7755, legs |-> 1],
      [polyline |-> <<P2>>, base |-> 10 * 1000, legs |-> 1],
      [polyline |-> <<P1>>, base |-> 10600, legs |-> 1],
      [polyline |-> <<P2>>, base |-> 5000, legs |-> 0] }

Representative(route, start) ==
    IF route.polyline # << >> THEN route.polyline[1] ELSE start

ScoredRoute(route, idx, preference, start, summary) ==
    LET name == RouteName(idx, preference) IN
    [name |-> name,
     color |-> IF preference = "fastest" THEN "blue" ELSE "green",
     coordinates |-> route.polyline,
     safetyScore |-> SafetyScore(route.base, summary.incident_count),
     safetyDetails |-> [route |-> name,
                        incidents |-> IF summary.incident_count > 0
                                      THEN Some(summary.incident_count) ELSE Null]]

\* A sort that leaves reverse=True out
RECURSIVE SortAscending(_)
SortAscending(routes) ==
    IF routes = << >> THEN << >>
    ELSE LET rest == SortAscending(Tail(routes))
             x == Head(routes)
             before == SelectSeq(rest, LAMBDA y : y.safetyScore < x.safetyScore)
             after == SelectSeq(rest, LAMBDA y : y.safetyScore >= x.safetyScore)
         IN before \o <<x>> \o after

\* routes_to_return.sort(key=safetyScore, reverse=True): stable, equal scores keep
\* their order
RECURSIVE SortBySafetyScore(_)
SortBySafetyScore(routes) ==
    IF routes = << >> THEN << >>
    ELSE LET rest == SortBySafetyScore(Tail(routes))
             x == Head(routes)
             before == SelectSeq(rest, LAMBDA y : y.safetyScore > x.safetyScore)
             after == SelectSeq(rest, LAMBDA y : y.safetyScore <= x.safetyScore)
         IN before \o <<x>> \o after

RouteRequests ==
    { [start_point |-> P1, end_point |-> P2, preference |-> "safest"],
      [start_point |-> P1, end_point |-> P2, preference |-> "fastest"],
      [start_point |-> P2, end_point |-> P1],
      [end_point |-> P2, preference |-> "safest"] }

Directions == {"absent", "raises", "ok"}

\* An except clause that answers with the routes appended before the exception
DirectionsFailurePartial(scoredSoFar) ==
    Answer(200, [status |-> "success", message |-> "Routes and safety scores generated.",
                 routes |-> scoredSoFar])

\* except Exception around gmaps.directions and the loop over its routes:
\* routes_to_return is dropped
DirectionsFailure(scoredSoFar) ==
    Error(500, "An error occurred while fetching routes from Google Maps: " \o ExcText)

RoutesOutcome(data, directions, found, mode, fault) ==
    LET preference == IF "preference" \in DOMAIN data THEN data.preference ELSE "fastest"
        summaryOf(route) ==
            LET p == Representative(route, data.start_point) IN
            CHOOSE x \in get_nearby_crime_data(p[1], p[2], mode) : TRUE
        scored == [i \in DOMAIN found |->
                      ScoredRoute(found[i], i - 1, preference, data.start_point,
                                  summaryOf(found[i]))]
    IN
    IF fault = "pool" THEN PoolNotInitialized
    ELSE IF ~({"start_point", "end_point"} \subseteq DOMAIN data)
    THEN Answer(400, [error |-> "Invalid input. 'start_point' and 'end_point' are required."])
    ELSE IF directions = "absent"
    THEN Error(500, "Google Maps API is not configured. Route calculation is unavailable.")
    ELSE IF directions = "raises" THEN DirectionsFailure(<< >>)
    ELSE IF \E i \in DOMAIN found : found[i].legs = 0
    THEN \* route['legs'][0] raises IndexError at the first route without a leg
         LET first == CHOOSE i \in DOMAIN found :
                          found[i].legs = 0 /\ \A j \in 1..(i - 1) : found[j].legs # 0
         IN  DirectionsFailure(SubSeq(scored, 1, first - 1))
    ELSE Answer(200, [status |-> "success",
                      message |-> "Routes and safety scores generated.",
                      routes |-> IF preference = "safest"
                                 THEN SortBySafetyScore(scored) ELSE scored])

RECURSIVE SeqsUpTo(_, _)
SeqsUpTo(S, n) ==
    IF n = 0 THEN {<< >>}
    ELSE LET shorter == SeqsUpTo(S, n - 1) IN
         shorter \cup {Append(q, x) : q \in shorter, x \in S}

get_routes_with_safety ==
    /\ req.op = "none"
    /\ \E data \in RouteRequests, directions \in Directions,
          mode \in LookupModes \ {"no_pool"}, fault \in {"none", "pool"} :
      \E found \in SeqsUpTo(ProviderRoutes, MaxAlternatives) :
        /\ directions # "ok" => found = << >>
        /\ req' = [op |-> "get_routes_with_safety", data |-> data,
                   directions |-> directions, found |-> found, mode |-> mode,
                   fault |-> fault]
        /\ resp' = RoutesOutcome(data, directions, found, mode, fault)
        /\ UNCHANGED <<acctVars, histVars, fbVars, crimeVars, clock, regLog, poolVars>>

\* ------------------------------------------- the pool under the threaded server
\* app.run serves each request on a thread of its own; db_pool is a module global
\* read and written by every thread, a statement at a time.
\* what the requests served one at a time read and write
seqVars == <<acctVars, histVars, fbVars, crimeVars, clock, req, resp, regLog>>

Threads == {"t1", "t2"}
\* test_db_connection stands for the handlers that take a connection themselves,
\* get_routes_with_safety takes it inside get_nearby_crime_data
Kinds == {"test_db_connection", "get_routes_with_safety"}

Idle ==
    [pc |-> "idle", kind |-> "none", rid |-> 0, conn |-> 0, newpool |-> 0,
     result |-> "none", nearby |-> "none", cause |-> "none"]

\* psycopg2's SimpleConnectionPool: closed by closeall, _used the connections out
NewPool == [closed |-> FALSE, used |-> {}]

Goto(t, pc) == th' = [th EXCEPT ![t].pc = pc]

\* Flask hands the request to a thread
Start(t) ==
    /\ th[t].pc = "idle"
    /\ started < MaxRequests
    /\ started' = started + 1
    /\ \E k \in Kinds :
        th' = [th EXCEPT ![t] = [Idle EXCEPT !.pc = "handler_test", !.kind = k,
                                             !.rid = started + 1]]
    /\ UNCHANGED <<db_pool, pools, seqVars>>

\* the handler's first line: if db_pool is None: init_db_pool()
HandlerTest(t) ==
    /\ th[t].pc = "handler_test"
    /\ Goto(t, IF db_pool = 0 THEN "init_test" ELSE "handler_check")
    /\ UNCHANGED <<db_pool, pools, started, seqVars>>

\* init_db_pool: if db_pool is None
InitTest(t) ==
    /\ th[t].pc = "init_test"
    /\ Goto(t, IF db_pool = 0 THEN "init_new" ELSE "handler_check")
    /\ UNCHANGED <<db_pool, pools, started, seqVars>>

\* init_db_pool: SimpleConnectionPool(...) connects, or raises into the except
InitNew(t) ==
    /\ th[t].pc = "init_new"
    /\ \/ /\ pools' = Append(pools, NewPool)
          /\ th' = [th EXCEPT ![t].pc = "init_assign", ![t].newpool = Len(pools) + 1]
       \/ /\ th' = [th EXCEPT ![t].pc = "init_assign", ![t].newpool = 0]
          /\ UNCHANGED pools
    /\ UNCHANGED <<db_pool, started, seqVars>>

\* init_db_pool: the store to the global, db_pool = <the pool> or db_pool = None
InitAssign(t) ==
    /\ th[t].pc = "init_assign"
    /\ db_pool' = th[t].newpool
    /\ th' = [th EXCEPT ![t].pc = "handler_check", ![t].newpool = 0]
    /\ UNCHANGED <<pools, started, seqVars>>

\* the handler's second line: if db_pool is None: return ... 500
HandlerCheck(t) ==
    /\ th[t].pc = "handler_check"
    /\ IF db_pool = 0
       THEN th' = [th EXCEPT ![t].pc = "teardown_test", ![t].result = "error"]
       ELSE Goto(t, IF th[t].kind = "get_routes_with_safety" THEN "nearby_test"
                                                              ELSE "getconn")
    /\ UNCHANGED <<db_pool, pools, started, seqVars>>

\* get_nearby_crime_data: if db_pool is None: return <neutral summary>
NearbyTest(t) ==
    /\ th[t].pc = "nearby_test"
    /\ IF db_pool = 0
       THEN th' = [th EXCEPT ![t].pc = "teardown_test", ![t].result = "ok",
                             ![t].nearby = "neutral", ![t].cause = "no_pool"]
       ELSE Goto(t, "getconn")
    /\ UNCHANGED <<db_pool, pools, started, seqVars>>

\* What the enclosing except leaves when the try raised: the handler answers 500,
\* get_nearby_crime_data returns the neutral summary and the handler goes on
Caught(t, pc, cause) ==
    IF th[t].kind = "get_routes_with_safety"
    THEN [th EXCEPT ![t].pc = pc, ![t].result = "ok", ![t].nearby = "neutral",
                    ![t].cause = cause]
    ELSE [th EXCEPT ![t].pc = pc, ![t].result = "error", ![t].cause = cause]

\* conn = db_pool.getconn(): AttributeError on None, PoolError on a closed pool
GetConn(t) ==
    /\ th[t].pc = "getconn"
    /\ IF db_pool = 0 \/ pools[db_pool].closed
       THEN /\ th' = Caught(t, "teardown_test", "getconn")
            /\ UNCHANGED pools
       ELSE /\ pools' = [pools EXCEPT ![db_pool].used = @ \cup {th[t].rid}]
            /\ th' = [th EXCEPT ![t].pc = "execute", ![t].conn = db_pool]
    /\ UNCHANGED <<db_pool, started, seqVars>>

\* cursor.execute(...): raises on a connection closeall has closed
Execute(t) ==
    /\ th[t].pc = "execute"
    /\ IF pools[th[t].conn].closed
       THEN th' = Caught(t, "putconn", "execute")
       ELSE th' = [th EXCEPT ![t].pc = "putconn", ![t].result = "ok",
                             ![t].nearby = IF th[t].kind = "get_routes_with_safety"
                                           THEN "summary" ELSE "none"]
    /\ UNCHANGED <<db_pool, pools, started, seqVars>>

\* SimpleConnectionPool.putconn: PoolError on a closed pool and on a connection
\* the pool did not hand out
PutAccepted(pool, conn) == pool = conn /\ ~pools[pool].closed

\* finally: if conn: db_pool.putconn(conn), AttributeError when db_pool is None
PutOutcome(pool, conn) ==
    IF pool # 0 /\ PutAccepted(pool, conn) THEN "returned" ELSE "raised"

\* the finally clause; what it raises leaves the function in place of the return
PutConn(t) ==
    /\ th[t].pc = "putconn"
    /\ IF PutOutcome(db_pool, th[t].conn) = "returned"
       THEN /\ pools' = [pools EXCEPT ![th[t].conn].used = @ \ {th[t].rid}]
            /\ th' = [th EXCEPT ![t].pc = "teardown_test", ![t].conn = 0]
       ELSE /\ th' = [th EXCEPT ![t].pc = "teardown_test", ![t].result = "raised",
                                ![t].nearby = IF th[t].kind = "get_routes_with_safety"
                                              THEN "raised" ELSE "none"]
            /\ UNCHANGED pools
    /\ UNCHANGED <<db_pool, started, seqVars>>

\* close_db_pool: if db_pool is not None
TeardownTest(t) ==
    /\ th[t].pc = "teardown_test"
    /\ Goto(t, IF db_pool # 0 THEN "closeall" ELSE "idle")
    /\ UNCHANGED <<db_pool, pools, started, seqVars>>

\* close_db_pool: db_pool.closeall() closes every connection of the pool, those
\* out included; AttributeError on None and PoolError on a closed pool are caught
CloseAll(t) ==
    /\ th[t].pc = "closeall"
    /\ IF db_pool = 0 \/ pools[db_pool].closed
       THEN /\ Goto(t, "idle")
            /\ UNCHANGED pools
       ELSE /\ pools' = [pools EXCEPT ![db_pool].closed = TRUE]
            /\ Goto(t, "teardown_assign")
    /\ UNCHANGED <<db_pool, started, seqVars>>

\* close_db_pool: db_pool = None
TeardownAssign(t) ==
    /\ th[t].pc = "teardown_assign"
    /\ db_pool' = 0
    /\ Goto(t, "idle")
    /\ UNCHANGED <<pools, started, seqVars>>

\* The handler has returned (or raised): the thread is in the teardown or done
Completed(t) ==
    th[t].pc \in {"teardown_test", "closeall", "teardown_assign", "idle"} /\ th[t].rid # 0

\* ----------------------------------------------------- specifications
ValidRegistration(d) ==
    /\ Truthy(d.name) /\ Truthy(d.email) /\ Truthy(d.password) /\ Truthy(d.gender)
    /\ d.phone.len = 10 /\ d.phone.isdigit

Init ==
    /\ users = {}
    /\ users_seq = 1
    /\ route_history = {}
    /\ route_seq = 1
    /\ feedback = {}
    /\ feedback_seq = 1
    /\ crime_logs = {}
    /\ crime_seq = 1
    /\ crime_columns \in {"app", "loader"}
    /\ clock = 1
    /\ req = [op |-> "none"]
    /\ resp = Answer(0, [status |-> "none"])
    /\ regLog = {}
    /\ db_pool = 0
    /\ pools = << >>
    /\ th = [t \in Threads |-> Idle]
    /\ started = 0

\* The account handlers
Next ==
    \/ register_user
    \/ login_user

Spec == Init /\ [][Next]_vars

\* Saved routes and their history, for the users of two registrations
history_register ==
    RegisterUser({BaseRegistration("a@x.in", "pw1"), BaseRegistration("b@x.in", "pw2")},
                 MaxUsers)

NextHistory ==
    \/ history_register
    \/ save_selected_route
    \/ get_route_history
    \/ Tick

SpecHistory == Init /\ [][NextHistory]_vars

\* Every handler that writes a table, over the four tables
tables_register ==
    RegisterUser({BaseRegistration("a@x.in", "pw1"), BaseRegistration("b@x.in", "pw2")},
                 MaxRows)
tables_login ==
    LoginUser({[email |-> "a@x.in", password |-> "pw1"],
               [email |-> "a@x.in", password |-> "pw2"],
               [email |-> "b@x.in", password |-> "pw2"]})

tables_save_route == SaveSelectedRoute(SaveRequests(MaxRows), MaxRows)
tables_save_feedback == SaveFeedback(FeedbackRequests(MaxRows), MaxRows)
tables_load_crime == LoadCrimeData(SmallCrimeBatches, MaxRows)

NextTables ==
    \/ tables_register
    \/ tables_login
    \/ tables_save_route
    \/ tables_save_feedback
    \/ tables_load_crime
    \/ create_tables

SpecTables == Init /\ [][NextTables]_vars

\* The incident aggregator and the route scorer over stored incidents
StoredCrimes ==
    { CrimeRow(1, NearCrime), CrimeRow(2, FarCrime), CrimeRow(3, BareCrime) }

InitScore ==
    /\ users = {}
    /\ users_seq = 1
    /\ route_history = {}
    /\ route_seq = 1
    /\ feedback = {}
    /\ feedback_seq = 1
    /\ crime_logs \in SUBSET StoredCrimes
    /\ crime_seq = 4
    /\ crime_columns \in {"app", "loader"}
    /\ clock = 1
    /\ req = [op |-> "none"]
    /\ resp = Answer(0, [status |-> "none"])
    /\ regLog = {}
    /\ db_pool = 0
    /\ pools = << >>
    /\ th = [t \in Threads |-> Idle]
    /\ started = 0

NextScore ==
    \/ nearby_crime_data
    \/ get_routes_with_safety

SpecScore == InitScore /\ [][NextScore]_vars

\* The request threads over the pool
NextPool ==
    \E t \in Threads :
        \/ Start(t)
        \/ HandlerTest(t)
        \/ InitTest(t)
        \/ InitNew(t)
        \/ InitAssign(t)
        \/ HandlerCheck(t)
        \/ NearbyTest(t)
        \/ GetConn(t)
        \/ Execute(t)
        \/ PutConn(t)
        \/ TeardownTest(t)
        \/ CloseAll(t)
        \/ TeardownAssign(t)

SpecPool == Init /\ [][NextPool]_vars

\* ------------------------------------------------------------ claims
\* C5: once register_user has answered 201 for an email, a later valid register_user
\* request with that email (the database being reachable) is answered 409 "Email
\* already registered.", and the table users is left exactly as it was.
C5_DuplicateEmailConflict ==
    [][ ( /\ req'.op = "register" /\ req'.fault = "none"
          /\ ValidRegistration(req'.data)
          /\ \E r \in regLog : r.email = req'.data.email )
        => ( /\ resp' = Error(409, "Email already registered.")
             /\ users' = users ) ]_vars

C5_Witness ==
    /\ req.op = "register" /\ req.fault = "none"
    /\ resp.code = 409
    /\ \E r \in regLog : r.email = req.data.email /\ r.password # req.data.password

C7_LoginFailureUniform ==
    ( /\ req.op = "login" /\ req.fault = "none"
      /\ Truthy(req.data.email) /\ Truthy(req.data.password)
      /\ resp.code # 200 )
    => ( /\ resp = Error(401, "Invalid email or password.")
         /\ resp = LoginOutcome(users \ UsersByEmail(req.data.email), req.data, "none") )

C7_Witness ==
    /\ req.op = "login" /\ req.fault = "none"
    /\ UsersByEmail(req.data.email) # {}
    /\ resp.code = 401

RoutesOf(user_id) == {r \in route_history : r.user_id = user_id}

\* A get_route_history request served right after a save_selected_route answered
\* 201 for the same user, who then has that one saved route
SaveThenHistory ==
    /\ req.op = "save_selected_route" /\ resp.code = 201
    /\ Cardinality(RoutesOf(req.data.user_id)) = 1
    /\ req'.op = "get_route_history" /\ req'.fault = "none"
    /\ req'.user_id = req.data.user_id

\* C8 as claimed: the one entry carries the submitted source and destination (as
\* get_address_from_coords renders the submitted coordinates) and the payload.
C8_AsClaimed ==
    [][ SaveThenHistory =>
        LET h == resp'.body.history
            d == req.data
        IN  /\ Len(h) = 1
            /\ h[1].selected_route = d.selected_route
            /\ h[1].source_address =
                   get_address_from_coords(d.source_lat, d.source_lng, req'.gmaps)
            /\ h[1].destination_address =
                   get_address_from_coords(d.destination_lat, d.destination_lng, req'.gmaps)
      ]_vars

\* C8 amended: the one entry carries the payload, and the addresses that
\* get_address_from_coords gives for the submitted coordinates rounded to six
\* decimals (the DECIMAL(9,6) columns); a save answered 201 adds one row for its
\* user; and every history answered 200 has one entry per stored row of that user,
\* none of another user, in non-increasing request_time.
C8_HistoryOfSavedRoutes ==
    /\ [][ SaveThenHistory =>
            LET h == resp'.body.history
                d == req.data
            IN  /\ Len(h) = 1
                /\ h[1].selected_route = d.selected_route
                /\ h[1].source_address =
                       get_address_from_coords(Decimal6(d.source_lat),
                                               Decimal6(d.source_lng), req'.gmaps)
                /\ h[1].destination_address =
                       get_address_from_coords(Decimal6(d.destination_lat),
                                               Decimal6(d.destination_lng), req'.gmaps)
          ]_vars
    /\ [][ (req'.op = "save_selected_route" /\ resp'.code = 201 /\ clock' = clock) =>
            /\ Cardinality(route_history') = Cardinality(route_history) + 1
            /\ route_history \subseteq route_history'
            /\ \A r \in route_history' \ route_history : r.user_id = req'.data.user_id
          ]_vars
    /\ []( (req.op = "get_route_history" /\ resp.code = 200) =>
            LET h == resp.body.history IN
            /\ Len(h) = Cardinality(RoutesOf(req.user_id))
            /\ \A r \in RoutesOf(req.user_id) :
                   \E i \in DOMAIN h :
                       /\ h[i].request_time = [iso |-> r.request_time]
                       /\ h[i].selected_route = r.selected_route.json_text
            /\ \A i, j \in DOMAIN h :
                   i < j => h[i].request_time.iso >= h[j].request_time.iso )

C8_Witness ==
    /\ req.op = "get_route_history" /\ resp.code = 200
    /\ req.gmaps = "absent"
    /\ Len(resp.body.history) = 2
    /\ resp.body.history[1].request_time.iso > resp.body.history[2].request_time.iso
    /\ resp.body.history[1].source_address = CoordText(Decimal6(Lat7), Decimal6(Lng7))

\* C9 as claimed: create_tables leaves every stored row of the four tables in place.
C9_CreateTablesKeepsRows ==
    [][ req'.op = "create_tables" =>
        /\ users \subseteq users'
        /\ route_history \subseteq route_history'
        /\ feedback \subseteq feedback'
        /\ crime_logs \subseteq crime_logs' ]_vars

\* C1: every route of a get_routes_with_safety answer has its safetyScore within
\* [0, 10] (0..1000 hundredths), whatever the base score and whether or not the
\* penalty was taken off.
C1_ScoreWithinBounds ==
    (req.op = "get_routes_with_safety" /\ resp.code = 200) =>
        \A i \in DOMAIN resp.body.routes :
            /\ resp.body.routes[i].safetyScore >= 0
            /\ resp.body.routes[i].safetyScore <= 1000

\* a base score below 1.0 with the penalty taken off, and one above 10, in one answer
C1_Witness ==
    /\ req.op = "get_routes_with_safety" /\ resp.code = 200
    /\ \E i, j \in DOMAIN resp.body.routes :
          /\ req.found[i].base = 400
          /\ resp.body.routes[i].safetyDetails.incidents # Null
          /\ resp.body.routes[i].safetyScore = 0
          /\ resp.body.routes[j].safetyScore = 1000

\* C2: with preference "safest" the routes of the answer are in non-increasing
\* order of safetyScore.
C2_SafestSorted ==
    ( /\ req.op = "get_routes_with_safety" /\ resp.code = 200
      /\ "preference" \in DOMAIN req.data /\ req.data.preference = "safest" )
    => \A i, j \in DOMAIN resp.body.routes :
           i < j => resp.body.routes[i].safetyScore >= resp.body.routes[j].safetyScore

\* the provider's second route scores higher than its first and comes out first
C2_Witness ==
    /\ req.op = "get_routes_with_safety" /\ resp.code = 200
    /\ "preference" \in DOMAIN req.data /\ req.data.preference = "safest"
    /\ Len(req.found) = 2
    /\ req.found[1].base < req.found[2].base
    /\ resp.body.routes[1].safetyScore > resp.body.routes[2].safetyScore

\* C4 as claimed: every summary with incident_count = 0 has avg_severity_score = 0
\* and perc_safe_incidents = 0.
C4_AsClaimed ==
    (req.op = "get_nearby_crime_data" /\ resp.incident_count = 0) =>
        (resp.avg_severity_score = 0 /\ resp.perc_safe_incidents = 0)

\* The call went through the query and the loop: the fallback returns were not taken
QueryPath ==
    /\ req.mode = "ok" /\ crime_columns = "loader"
    /\ \A r \in crime_logs : InBox(r, req.lat, req.lon) => r.severity_score # Null

\* C4 amended: every summary with incident_count = 0 has avg_severity_score = 0;
\* its perc_safe_incidents is 0 when the query ran and found no row, and 100.0 on
\* the three fallback returns (pool absent, no connection, exception).
C4_ZeroIncidentSummary ==
    (req.op = "get_nearby_crime_data" /\ resp.incident_count = 0) =>
        /\ resp.avg_severity_score = 0
        /\ resp.perc_safe_incidents = IF QueryPath THEN 0 ELSE 100 * 100

C4_Witness ==
    /\ req.op = "get_nearby_crime_data" /\ QueryPath
    /\ crime_logs # {}
    /\ resp.incident_count = 0 /\ resp.perc_safe_incidents = 0

\* C3: get_nearby_crime_data never raises to its caller: when the pool is gone, the
\* connection cannot be taken or the query fails, it returns the neutral summary.
C3_NearbyNeverRaises ==
    \A t \in Threads :
        th[t].kind = "get_routes_with_safety" =>
            /\ th[t].nearby # "raised"
            /\ (Completed(t) /\ th[t].cause # "none") => th[t].nearby = "neutral"

\* C10: a connection taken from a pool is back in that pool when the operation that
\* took it completes, and none is out while no request is being served.
C10_ConnectionsReturned ==
    /\ \A t \in Threads :
            Completed(t) => \A p \in 1..Len(pools) : th[t].rid \notin pools[p].used
    /\ (\A t \in Threads : th[t].pc = "idle") =>
            \A p \in 1..Len(pools) : pools[p].used = {}

\* C11: a request to one of the four write handlers that is not answered 201 (an
\* exception in the write, a refused INSERT, a failed validation) leaves the four
\* tables as they were and is answered with a JSON error; a load_crime_data batch
\* with a refused record stores none of its records.
WriteOps == {"register", "save_selected_route", "save_feedback", "load_crime_data"}

JsonError(ans) ==
    /\ {"status", "message"} \subseteq DOMAIN ans.body
    /\ ans.body.status = "error"

C11_FailedWriteRolledBack ==
    [][ (req'.op \in WriteOps /\ resp'.code # 201) =>
            /\ users' = users /\ route_history' = route_history
            /\ feedback' = feedback /\ crime_logs' = crime_logs
            /\ JsonError(resp') ]_vars

\* A batch whose first record was written and whose second was refused
C11_Witness ==
    /\ req.op = "load_crime_data" /\ req.fault = "none"
    /\ req.data = <<NearCrime, NoPlaceCrime>>
    /\ resp.code = 500
    /\ crime_logs = {}

C13_DatabaseOutageAbsorbed ==
    ( /\ req.op = "get_routes_with_safety"
      /\ {"start_point", "end_point"} \subseteq DOMAIN req.data
      /\ req.directions = "ok" /\ \A i \in DOMAIN req.found : req.found[i].legs # 0
      /\ (req.fault = "pool" \/ req.mode # "ok") )
    => /\ resp.code = 200
       /\ Len(resp.body.routes) = Len(req.found)
       /\ \A i \in DOMAIN resp.body.routes :
              resp.body.routes[i].safetyDetails.incidents = Null

\* C14: a register, login, save_selected_route or get_routes_with_safety request
\* with a required field missing (for register also a phone that is not ten
\* digits) is answered 400, whether or not the database can be reached.
MissingFields ==
    \/ req.op = "register" /\ ~ValidRegistration(req.data)
    \/ req.op = "login" /\ ~(Truthy(req.data.email) /\ Truthy(req.data.password))
    \/ req.op = "save_selected_route" /\ ~(SaveFields \subseteq DOMAIN req.data)
    \/ req.op = "get_routes_with_safety"
          /\ ~({"start_point", "end_point"} \subseteq DOMAIN req.data)

C14_ValidationBeforeDatabase == MissingFields => resp.code = 400

\* C15: every answer of a handler with a code of 400 or above is a JSON object
\* with status "error" and a message.
C15_ErrorsCarryStatusAndMessage ==
    (req.op \notin {"none", "get_nearby_crime_data"} /\ resp.code >= 400)
        => JsonError(resp)

\* C16: every stored route_history row and feedback row has the user_id of a stored
\* user, and a save request naming a user_id that no user has stores no row and
\* is answered with an error.
Referenced == \A r \in route_history \cup feedback : \E u \in users : u.user_id = r.user_id

UnknownUser(id) == \A u \in users : u.user_id # id

C16_RowsReferenceUsers ==
    /\ []Referenced
    /\ [][ ( /\ req'.op = "save_selected_route" /\ SaveFields \subseteq DOMAIN req'.data
             /\ UnknownUser(req'.data.user_id) )
           => (route_history' = route_history /\ resp'.code >= 400) ]_vars
    /\ [][ (req'.op = "save_feedback" /\ UnknownUser(req'.data.userId))
           => (feedback' = feedback /\ resp'.code >= 400) ]_vars

\* a route is stored for a user, and a feedback for a user that does not exist was
\* refused
C16_Witness ==
    /\ route_history # {} /\ feedback = {}
    /\ req.op = "save_feedback" /\ req.fault = "none"
    /\ UnknownUser(req.data.userId)
    /\ resp = Error(400, "User or route ID does not exist.")

\* C17: every stored feedback row has a rating, and it is one of 1..5.
C17_StoredRatingsInRange ==
    \A f \in feedback : f.rating # Null /\ f.rating[1] \in 1..5

\* C18: no request removes a user, and none removes or alters a route_history row:
\* every row of the two tables is there, unchanged, after every request.
C18_UsersAndRoutesKept ==
    [][ users \subseteq users' /\ route_history \subseteq route_history' ]_vars

HoldsUsable(t) ==
    /\ th[t].pc \in {"execute", "putconn"}
    /\ PutOutcome(db_pool, th[t].conn) = "returned"

C20_RequestsIndependent ==
    [][ \A t, u \in Threads :
            ( /\ t # u
              /\ th[u].pc \in {"teardown_test", "closeall", "teardown_assign"}
              /\ th'[u] # th[u]
              /\ HoldsUsable(t) )
            => HoldsUsable(t)' ]_vars

\* C21: each returned route is the provider route of its name scored from that
\* route's base score less 1.0 exactly when the summary of its representative point
\* has incident_count > 0 (the score returned is that value clamped to [0, 10] and
\* rounded), and its safetyDetails carry the incident count exactly in that case.
SummariesOf(route) ==
    LET p == Representative(route, req.data.start_point) IN
    get_nearby_crime_data(p[1], p[2], req.mode)

PenalisedBy(route, n) ==
    Round2(PyMin(10 * 1000, PyMax(0, route.base - (IF n > 0 THEN 1000 ELSE 0))))

C21_PenaltyIffIncidents ==
    (req.op = "get_routes_with_safety" /\ resp.code = 200) =>
        /\ Len(resp.body.routes) = Len(req.found)
        /\ \A k \in DOMAIN resp.body.routes :
              LET r == resp.body.routes[k] IN
              \E i \in DOMAIN req.found : \E summary \in SummariesOf(req.found[i]) :
                  LET n == summary.incident_count IN
                  /\ r.coordinates = req.found[i].polyline
                  /\ r.safetyScore = PenalisedBy(req.found[i], n)
                  /\ r.safetyDetails.incidents = IF n > 0 THEN Some(n) ELSE Null

\* one route with an incident nearby, 7.755 scored 6.76 (6.755 rounded), and one
\* without, 10.0 scored 10.0
C21_Witness ==
    /\ req.op = "get_routes_with_safety" /\ resp.code = 200
    /\ \E i, j \in DOMAIN resp.body.routes :
          /\ req.found[i].base = 7755
          /\ resp.body.routes[i].safetyDetails.incidents = Some(1)
          /\ resp.body.routes[i].safetyScore = 676
          /\ req.found[j].base = 10 * 1000
          /\ resp.body.routes[j].safetyDetails.incidents = Null
          /\ resp.body.routes[j].safetyScore = 1000

\* C22: with preference "safest" and at least one route returned, the first route
\* of the answer is named "Safest Path" and every other route has an ordinal name.
C22_SafestPathFirst ==
    ( /\ req.op = "get_routes_with_safety" /\ resp.code = 200
      /\ "preference" \in DOMAIN req.data /\ req.data.preference = "safest"
      /\ resp.body.routes # << >> )
    => \A k \in DOMAIN resp.body.routes :
           (resp.body.routes[k].name = SafestPath) <=> (k = 1)

\* C23: when the database is reached, the incident_count of the summary is the
\* number of crime_logs rows inside the bounding box, at most 200, whatever the
\* other columns of those rows hold.
C23_CountsRowsInBox ==
    (req.op = "get_nearby_crime_data" /\ req.mode = "ok") =>
        resp.incident_count =
            PyMin(QueryLimit,
                  Cardinality({r \in crime_logs : InBox(r, req.lat, req.lon)}))

\* C24: get_address_from_coords never raises: with the geocoding client absent,
\* raising or returning no result, every address is the raw coordinate text of the
\* stored coordinates, and get_route_history answers success with one entry per
\* stored route of the user.
C24_GeocodingFailureAbsorbed ==
    ( /\ req.op = "get_route_history" /\ req.fault = "none"
      /\ req.gmaps \in {"absent", "raises", "empty"} )
    => /\ resp.code = 200
       /\ resp.body.status = "success"
       /\ Len(resp.body.history) = Cardinality(RoutesOf(req.user_id))
       /\ \A r \in RoutesOf(req.user_id) :
              \E i \in DOMAIN resp.body.history :
                  LET e == resp.body.history[i] IN
                  /\ e.request_time = isoformat(r.request_time)
                  /\ e.source_address = CoordText(r.source_lat, r.source_lng)
                  /\ e.destination_address =
                         CoordText(r.destination_lat, r.destination_lng)

C24_Witness ==
    /\ req.op = "get_route_history" /\ req.fault = "none"
    /\ req.gmaps = "raises"
    /\ resp.code = 200
    /\ Len(resp.body.history) = 2
    /\ resp.body.history[2].destination_address # RowError

\* C25: however the requests that call init_db_pool interleave, at most one pool
\* is open at a time, and every open pool is the one db_pool names or one whose
\* store to db_pool is still to come: none is replaced while open.
C25_OnePoolLive ==
    LET live == {p \in DOMAIN pools : ~pools[p].closed} IN
    /\ Cardinality(live) <= 1
    /\ \A p \in live : db_pool = p \/ \E t \in Threads : th[t].newpool = p

====
